---- MODULE Spec2Model ----
(***************************************************************************)
(* A model of census/core.py: the request-construction and response-       *)
(* normalisation pipeline of the Census API client (Client, ACSClient,     *)
(* ACS5Client).  Strings of the program are TLA+ strings; a Python list,   *)
(* tuple or JSON array is a sequence; a dict is a function whose domain is *)
(* its key set.  A Python float is written by its repr ("1234.0").         *)
(***************************************************************************)
EXTENDS Integers, Sequences, FiniteSets, TLC

(***************************************************************************)
(* Bounds of the model.                                                    *)
(***************************************************************************)
\* Longest field list a caller passes.
MaxFields == 99
\* Largest retry budget a client is constructed with.
MaxRetries == 3
\* Number of geographies (data rows) in a JSON response.
NumGeos == 2
\* Number of distinct fields resolved one by one in the type-cache runs,
\* beyond the capacity of the cache.
CacheSlack == 1

(***************************************************************************)
(* Program constants.                                                      *)
(***************************************************************************)
\* year=None (core.py:149, 164): the model's None for a year.
None == 0
\* chunks(fields, 49) and len(fields) > 49 (core.py:156-158).
ChunkSize == 49
\* year > 2009 (core.py:156, 295).
LastLegacyYear == 2009
\* @lru_cache(maxsize=1024) (core.py:216).
maxsize == 1024
\* ACS5Client.default_year (core.py:318).
default_year == 2023
\* retries=3 (core.py:98).
DefaultRetries == 3
\* ACS5Client.dataset (core.py:319).
dataset == "acs5"
\* ACS5Client.years (core.py:321): (2023, 2022, ..., 2009).
years == [i \in 1..15 |-> 2024 - i]
\* @supported_years(2023, ..., 2011) on zipcode/state_zipcode (core.py:361).
zipcode_years == [i \in 1..13 |-> 2024 - i]
\* The JSON null / Python None of a data cell.
NULL == "<None>"
\* The identity field (core.py:171).
GEO_ID == "GEO_ID"
\* The marker of the invalid-key page (core.py:192).
InvalidKeyMarker == "<title>Invalid Key</title>"
\* The recognised transient-error message (core.py:62).
TransientMsg == "There was an error while running your query.  We've logged the error and we'll correct it ASAP.  Sorry for the inconvenience."

(***************************************************************************)
(* Generic helpers on sequences.                                           *)
(***************************************************************************)
Range(s) == {s[i] : i \in DOMAIN s}

InSeq(x, s) == \E i \in DOMAIN s : s[i] = x

Min(a, b) == IF a < b THEN a ELSE b

Max(a, b) == IF a > b THEN a ELSE b

\* sep.join(s) for a sequence of strings (joined by halves, which keeps the
\* evaluation shallow).
RECURSIVE Join(_, _)
Join(sep, s) ==
    IF Len(s) = 0 THEN ""
    ELSE IF Len(s) = 1 THEN s[1]
    ELSE LET h == Len(s) \div 2
         IN  Join(sep, SubSeq(s, 1, h)) \o sep \o Join(sep, SubSeq(s, h + 1, Len(s)))

\* str(year) as the % and format operators render an int.
YearStr(y) == ToString(y)

\* str(tuple_of_years), e.g. "(2023, 2022)".
TupleStr(ys) == "(" \o Join(", ", [i \in DOMAIN ys |-> YearStr(ys[i])]) \o ")"

\* template % args: the i-th "%s" piece is replaced by the i-th argument and
\* the pieces are concatenated.
RECURSIVE Fmt(_, _)
Fmt(tmpl, args) ==
    IF Len(tmpl) = 0 THEN ""
    ELSE IF tmpl[1] = "%s" THEN args[1] \o Fmt(Tail(tmpl), Tail(args))
    ELSE tmpl[1] \o Fmt(Tail(tmpl), args)

(***************************************************************************)
(* Module-level functions of core.py.                                      *)
(***************************************************************************)
\* list_or_str: a list or tuple is returned as it is (the same object).
list_or_str(v) == v

\* The parse of float(v): "ok" with the float's repr, or ValueError.
ParseFloat(v) ==
    CASE v = "1234" -> [ok |-> TRUE, val |-> "1234.0"]
      [] v = "12.5" -> [ok |-> TRUE, val |-> "12.5"]
      [] OTHER      -> [ok |-> FALSE, val |-> v]

\* The three coercions a type tag stands for: str, float, float_or_str.
\* Result: [ok, val]; ok = FALSE is float's ValueError.
Cast(tag, v) ==
    CASE tag = "str"          -> [ok |-> TRUE, val |-> v]
      [] tag = "float"        -> ParseFloat(v)
      [] tag = "float_or_str" ->
            IF ParseFloat(v).ok THEN ParseFloat(v) ELSE [ok |-> TRUE, val |-> v]

\* float_or_str(v).
float_or_str(v) == Cast("float_or_str", v).val

\* Slices one field longer than asked for.
LongChunks(l, n) ==
    [k \in 1..((Len(l) + n) \div (n + 1)) |->
        SubSeq(l, (k - 1) * (n + 1) + 1, Min(k * (n + 1), Len(l)))]

\* chunks(l, n): the successive n-sized slices l[i:i+n], i = 0, n, 2n, ...
chunks(l, n) ==
    [k \in 1..((Len(l) + n - 1) \div n) |->
        SubSeq(l, (k - 1) * n + 1, Min(k * n, Len(l)))]

\* dict(item for d in dicts for item in d.items()): a later dict's entry
\* replaces an earlier one's.
RECURSIVE merge(_)
merge(dicts) ==
    IF Len(dicts) = 0 THEN << >>
    ELSE LET rest == merge(SubSeq(dicts, 1, Len(dicts) - 1))
             last == dicts[Len(dicts)]
         IN  [k \in (DOMAIN rest) \cup (DOMAIN last) |->
                 IF k \in DOMAIN last THEN last[k] ELSE rest[k]]

(***************************************************************************)
(* URL templates, as the pieces around their %s places.                    *)
(***************************************************************************)
Host == "https://api.census.gov/data/"

\* Client.endpoint_url, definitions_url, definition_url, groups_url.
ClientTemplates ==
    [endpoint_url    |-> <<Host, "%s", "/", "%s">>,
     definitions_url |-> <<Host, "%s", "/", "%s", "/variables.json">>,
     definition_url  |-> <<Host, "%s", "/", "%s", "/variables/", "%s", ".json">>,
     groups_url      |-> <<Host, "%s", "/", "%s", "/groups.json">>]

\* The templates ACSClient._switch_endpoints writes for year > 2009.
AcsTemplates ==
    [endpoint_url    |-> <<Host, "%s", "/acs/", "%s">>,
     definitions_url |-> <<Host, "%s", "/acs/", "%s", "/variables.json">>,
     definition_url  |-> <<Host, "%s", "/acs/", "%s", "/variables/", "%s", ".json">>,
     groups_url      |-> <<Host, "%s", "/acs/", "%s", "/groups.json">>]

\* The instance fields that hold the four current templates.
TemplatesOf(self) ==
    [endpoint_url    |-> self.endpoint_url,
     definitions_url |-> self.definitions_url,
     definition_url  |-> self.definition_url,
     groups_url      |-> self.groups_url]

\* Client.__init__(key, year, session, retries) on an ACS5Client: the
\* templates are the class attributes until a call writes instance fields.
NewClient(key, year, retries) ==
    [key             |-> key,
     default_year    |-> IF year # None THEN year ELSE default_year,
     retries         |-> retries,
     endpoint_url    |-> ClientTemplates.endpoint_url,
     definitions_url |-> ClientTemplates.definitions_url,
     definition_url  |-> ClientTemplates.definition_url,
     groups_url      |-> ClientTemplates.groups_url]

\* A switch whose boundary is off by one year.
WrongBoundarySwitch(self, year) ==
    LET t == IF year > LastLegacyYear + 1 THEN AcsTemplates ELSE ClientTemplates
    IN  [self EXCEPT !.endpoint_url = t.endpoint_url,
                     !.definitions_url = t.definitions_url,
                     !.definition_url = t.definition_url,
                     !.groups_url = t.groups_url]

\* ACSClient._switch_endpoints(year).
switch_endpoints(self, year) ==
    LET t == IF year > LastLegacyYear THEN AcsTemplates ELSE ClientTemplates
    IN  [self EXCEPT !.endpoint_url = t.endpoint_url,
                     !.definitions_url = t.definitions_url,
                     !.definition_url = t.definition_url,
                     !.groups_url = t.groups_url]

(***************************************************************************)
(* The API server, as far as the client observes it.                       *)
(***************************************************************************)
\* The i-th field name of a caller's list.
Fld(i) == "F" \o ToString(i)

\* GEO_ID value of the g-th geography; they sort by g.
GeoIdOf(g) == "0400000US0" \o ToString(g)

GeoRank(v) == CHOOSE g \in 1..(NumGeos + 1) : GeoIdOf(g) = v

\* The geography level a 'for' value names.
ForLevel(s) ==
    CASE s = "us:1" -> "us"
      [] s = "county:031" -> "county"
      [] s = "zip code tabulation area:60614" -> "zip code tabulation area"
      [] OTHER -> "geo"

\* The geography echo columns the API adds after the requested fields.
GeoCols(params) ==
    (IF "in" \in DOMAIN params THEN <<"state">> ELSE << >>)
        \o <<ForLevel(params["for"])>>

\* The predicateType the variables endpoint declares for a column ("" when
\* the JSON has no predicateType entry): the second field is a float, the
\* third has no declared type, the other fields are ints.
Declared(h) ==
    CASE h = GEO_ID -> "string"
      [] h \in {"us", "county", "zip code tabulation area", "geo"} -> "fips-for"
      [] h = "state" -> "fips-in"
      [] h = "F2" -> "float"
      [] h = "F3" -> ""
      [] OTHER -> "int"

\* The orders in which a response may list its data rows.
RowOrders ==
    {p \in [1..NumGeos -> 1..NumGeos] : \A i, j \in 1..NumGeos : p[i] = p[j] => i = j}

\* One cell of a data row.
Cell(h, g, v) ==
    IF h = GEO_ID THEN GeoIdOf(g)
    ELSE IF Declared(h) \in {"fips-for", "fips-in"} THEN "0" \o ToString(g)
    ELSE v

\* The decoded JSON body of a data response: the header row (the requested
\* fields as sent, then the geography columns), then one row per geography.
JsonBody(getFields, params, order, v) ==
    LET hdr == getFields \o GeoCols(params)
    IN  <<hdr>> \o [k \in 1..Len(order) |->
                      [j \in 1..Len(hdr) |-> Cell(hdr[j], order[k], v)]]

\* The text of a response body, as its lines.
BodyText(body) ==
    CASE body = "json"        -> <<"[[...]]">>
      [] body = "invalid_key" -> <<"<html>", InvalidKeyMarker, "</html>">>
      [] body = "garbage"     -> <<"<html>Service Unavailable</html>">>
      [] body = "transient"   -> <<"error:", TransientMsg>>
      [] body = "other"       -> <<"error: unknown variable 'FOO'">>
      [] OTHER                -> << >>

BodyKinds == {"json", "invalid_key", "garbage", "transient", "other", "empty"}

Statuses == {200, 204, 400, 500}

\* The order in which the geographies were registered.
FirstOrder == [i \in 1..NumGeos |-> i]

\* What the environment chooses for one data request: the status, the kind
\* of body and, for a JSON body, the order of its rows and the value of its
\* data cells (a body that is not JSON has no rows: one order and one value
\* stand for it).
RespShapes(bodies, statuses, vals) ==
    {sh \in [status : statuses, body : bodies, order : RowOrders, val : vals] :
        sh.body # "json" => (sh.order = FirstOrder /\ sh.val = "1234")}

\* The response of a request whose body the model does not look at.
NoResp == [status |-> 200, text |-> << >>, decodable |-> TRUE, json |-> << >>]

\* session.get(url, params): the response object.
Respond(shape, getFields, params) ==
    [status    |-> shape.status,
     text      |-> BodyText(shape.body),
     decodable |-> shape.body = "json",
     json      |-> IF shape.body = "json"
                   THEN JsonBody(getFields, params, shape.order, shape.val)
                   ELSE << >>]

(***************************************************************************)
(* Client._field_type and its lru_cache.                                   *)
(***************************************************************************)
\* The types dict of _field_type: predicate type -> coercion.
TypeOf(predicate_type) ==
    CASE predicate_type = "fips-for" -> "str"
      [] predicate_type = "fips-in"  -> "str"
      [] predicate_type = "int"      -> "float_or_str"
      [] predicate_type = "float"    -> "float"
      [] predicate_type = "string"   -> "str"

\* What the variables endpoint answers for column h: "up" answers 200 with
\* the declared predicate type, anything else answers 404.
MetaResp(meta, h) ==
    IF meta = "up" THEN [status |-> 200, predicateType |-> Declared(h)]
    ELSE [status |-> 404, predicateType |-> ""]

\* The body of Client._field_type(field, year): the URL it requests and the
\* coercion it returns for the response mresp.
field_type(self, field, year, mresp) ==
    [url |-> Fmt(self.definition_url, <<YearStr(year), dataset, field>>),
     tag |-> IF mresp.status = 200
             THEN TypeOf(IF mresp.predicateType = "" THEN "string"
                         ELSE mresp.predicateType)
             ELSE "str"]

\* Position of key in the cache (0: absent).  The cache is a sequence of
\* [key, val], least recently used first.
CacheIndex(cache, key) ==
    IF \E i \in DOMAIN cache : cache[i].key = key
    THEN CHOOSE i \in DOMAIN cache : cache[i].key = key
    ELSE 0

RemoveAt(s, i) == SubSeq(s, 1, i - 1) \o SubSeq(s, i + 1, Len(s))

\* A cache that forgets what it stored: every lookup is a miss.
NoCache(cache, c, self, field, year, mresp) ==
    LET r == field_type(self, field, year, mresp)
    IN  [cache |-> cache, tag |-> r.tag, urls |-> <<r.url>>]

\* @lru_cache(maxsize=1024) around _field_type, called by client c (self):
\* one cache for all instances, keyed by (self, field, year).  A hit moves the
\* entry to the most recent end and issues no request; a miss runs the body
\* and stores its result, dropping the least recently used entry when full.
lru_cache(cache, c, self, field, year, mresp) ==
    LET key == <<c, field, year>>
        i   == CacheIndex(cache, key)
    IN  IF i > 0
        THEN [cache |-> RemoveAt(cache, i) \o <<cache[i]>>,
              tag |-> cache[i].val, urls |-> << >>]
        ELSE LET r == field_type(self, field, year, mresp)
                 kept == IF Len(cache) >= maxsize THEN Tail(cache) ELSE cache
             IN  [cache |-> kept \o <<[key |-> key, val |-> r.tag]>>,
                  tag |-> r.tag, urls |-> <<r.url>>]

\* [self._field_type(header, year) for header in headers]: the cache after,
\* the coercions, and the URLs requested, in order.
\* The first half of the headers is resolved before the second half; the
\* test on first.tags, which always holds, makes the evaluation finish the
\* first half before it starts on the second.
RECURSIVE LookupAll(_, _, _, _, _, _)
LookupAll(cache, c, self, headers, year, meta) ==
    IF Len(headers) = 0 THEN [cache |-> cache, tags |-> << >>, urls |-> << >>]
    ELSE IF Len(headers) = 1
    THEN LET one == lru_cache(cache, c, self, headers[1], year,
                              MetaResp(meta, headers[1]))
         IN  [cache |-> one.cache, tags |-> <<one.tag>>, urls |-> one.urls]
    ELSE LET h     == Len(headers) \div 2
             first == LookupAll(cache, c, self, SubSeq(headers, 1, h), year, meta)
             rest  == LookupAll(first.cache, c, self,
                                SubSeq(headers, h + 1, Len(headers)), year, meta)
         IN  IF Len(first.tags) = h
             THEN [cache |-> rest.cache,
                   tags  |-> first.tags \o rest.tags,
                   urls  |-> first.urls \o rest.urls]
             ELSE first

(***************************************************************************)
(* Client.query: one attempt.                                              *)
(***************************************************************************)
\* Index of the last occurrence of h in headers.
LastIndex(headers, h) ==
    CHOOSE i \in DOMAIN headers :
        headers[i] = h /\ \A j \in DOMAIN headers : headers[j] = h => j <= i

\* {header: cast(item) if item is not None else None for ... in zip(...)}.
RowDict(headers, tags, d) ==
    [h \in Range(headers) |->
        LET j == LastIndex(headers, h)
        IN  IF d[j] = NULL THEN NULL ELSE Cast(tags[j], d[j]).val]

\* Some cast of some cell raises ValueError.
CastFails(headers, tags, data) ==
    \E k \in DOMAIN data : \E j \in DOMAIN headers :
        data[k][j] # NULL /\ ~Cast(tags[j], data[k][j]).ok

\* sorted(results, key=lambda x: x['GEO_ID']): a stable sort.
RECURSIVE SortedByGeoId(_)
SortedByGeoId(rows) ==
    IF Len(rows) <= 1 THEN rows
    ELSE LET init == SortedByGeoId(SubSeq(rows, 1, Len(rows) - 1))
             x    == rows[Len(rows)]
             n    == Cardinality({i \in DOMAIN init :
                                    GeoRank(init[i][GEO_ID]) <= GeoRank(x[GEO_ID])})
         IN  SubSeq(init, 1, n) \o <<x>> \o SubSeq(init, n + 1, Len(init))

\* x.pop('GEO_ID') on a row.
PopGeoId(row) == [h \in (DOMAIN row) \ {GEO_ID} |-> row[h]]

Return(value) == [kind |-> "return", exc |-> "", msg |-> << >>, value |-> value]

Raise(exc, msg) == [kind |-> "raise", exc |-> exc, msg |-> msg, value |-> << >>]

NoOutcome == [kind |-> "none", exc |-> "", msg |-> << >>, value |-> << >>]

\* An invalid-key page raises the generic query error.
NoKeyErrorResult(fields, sort_by_geoid, resp, tags) ==
    IF resp.status = 200
    THEN IF ~resp.decodable
         THEN Raise("CensusException", resp.text)
         ELSE LET headers == Head(resp.json)
                  data    == Tail(resp.json)
              IN  IF CastFails(headers, tags, data) THEN Raise("ValueError", <<"float">>)
                  ELSE Return([k \in DOMAIN data |-> RowDict(headers, tags, data[k])])
    ELSE IF resp.status = 204 THEN Return(<< >>)
    ELSE Raise("CensusException", resp.text)

\* The part of Client.query after the response arrived (core.py:188-214);
\* tags are the coercions of the header row's columns.
QueryResult(fields, sort_by_geoid, resp, tags) ==
    IF resp.status = 200
    THEN IF ~resp.decodable
         THEN IF InSeq(InvalidKeyMarker, resp.text)
              THEN Raise("APIKeyError", <<Join(" ", resp.text)>>)
              ELSE Raise("ValueError", <<"JSONDecodeError">>)
         ELSE LET headers == Head(resp.json)
                  data    == Tail(resp.json)
                  results == [k \in DOMAIN data |-> RowDict(headers, tags, data[k])]
              IN  IF CastFails(headers, tags, data)
                  THEN Raise("ValueError", <<"float">>)
                  ELSE IF sort_by_geoid
                  THEN IF InSeq(GEO_ID, fields)
                       THEN Return(SortedByGeoId(results))
                       ELSE LET sorted == SortedByGeoId(results)
                            IN  Return([k \in DOMAIN sorted |-> PopGeoId(sorted[k])])
                  ELSE Return(results)
    ELSE IF resp.status = 204 THEN Return(<< >>)
    ELSE Raise("CensusException", resp.text)

\* The 'get', 'for', 'key' and 'in' parameters of a data request.
QueryParams(self, fields, geo) ==
    [k \in {"get", "for", "key"} \cup ({"in"} \cap DOMAIN geo) |->
        CASE k = "get" -> Join(",", fields)
          [] k = "for" -> geo["for"]
          [] k = "key" -> self.key
          [] k = "in"  -> geo["in"]]

\* Client.query(fields, geo, year, sort_by_geoid) on client c (self), one
\* attempt: obj is the list or tuple object passed as fields, kind its type.
\* Gives the object after the attempt (a list is extended in place), the
\* request sent, the type cache and lookups after, and the outcome.
query(c, self, cache, obj, kind, geo, yearArg, sort_by_geoid, shape, meta) ==
    LET year   == IF yearArg = None THEN self.default_year ELSE yearArg
        fields == IF sort_by_geoid THEN list_or_str(obj) \o <<GEO_ID>>
                  ELSE list_or_str(obj)
        url    == Fmt(self.endpoint_url, <<YearStr(year), dataset>>)
        params == QueryParams(self, fields, geo)
        resp   == Respond(shape, fields, params)
        typed  == resp.status = 200 /\ resp.decodable
        look   == IF typed THEN LookupAll(cache, c, self, Head(resp.json), year, meta)
                  ELSE [cache |-> cache, tags |-> << >>, urls |-> << >>]
    IN  [obj     |-> IF sort_by_geoid /\ kind = "list" THEN fields ELSE obj,
         req     |-> [url |-> url, params |-> params, sent |-> fields],
         cache   |-> look.cache,
         resp    |-> resp,
         headers |-> IF typed THEN Head(resp.json) ELSE << >>,
         tags    |-> look.tags,
         lookups |-> look.urls,
         out     |-> QueryResult(fields, sort_by_geoid, resp, look.tags)]

(***************************************************************************)
(* The decorators and the public methods.                                  *)
(***************************************************************************)
\* How a caller supplies the year: not at all, as year=y, or positionally.
Modes == {"omitted", "keyword", "positional"}

\* The methods whose signature has a year parameter a positional argument
\* can bind; the geography methods take the year through **kwargs only.
ModesOf(m) ==
    IF m \in {"us", "state_zipcode"} THEN {"omitted", "keyword"} ELSE Modes

\* kwargs.get('year', self.default_year): what a *args/**kwargs wrapper
\* sees of the year (core.py:45, 307, 311, 363).
KwYear(self, mode, y) == IF mode = "keyword" THEN y ELSE self.default_year

\* The value the method's own year parameter receives.
ArgYear(mode, y) == IF mode = "omitted" THEN None ELSE y

\* The methods under @supported_years and the set each declares.
Gated == {"fields", "us", "state_zipcode"}

GateYears(m) == IF m = "state_zipcode" THEN zipcode_years ELSE years

\* supported_years(*years).wrapper: the exception it raises, or NoOutcome
\* when the call goes on to the method.
supported_years(self, m, mode, y) ==
    LET year   == KwYear(self, mode, y)
        _years == GateYears(m)
    IN  IF m \in Gated /\ ~InSeq(year, _years)
        THEN Raise("UnsupportedYearException",
                   <<"Geography is not available in ", YearStr(year),
                     ". Available years include ", TupleStr(_years)>>)
        ELSE NoOutcome

\* A wrapper that also retries on the last attempt of the budget.
RetryOnceMore(retries, tries, out) ==
    IF tries < Max(retries, 1)
       /\ out.kind = "raise" /\ out.exc = "CensusException"
       /\ InSeq(TransientMsg, out.msg)
    THEN "again"
    ELSE IF out.kind = "raise" THEN "raise" ELSE "return"

\* retry_on_transient_error.wrapper after an attempt with outcome out, when
\* tries attempts were made before it: the first max(retries - 1, 0) attempts
\* run inside the try, the last one outside.
retry_on_transient_error(retries, tries, out) ==
    IF tries < Max(retries - 1, 0)
       /\ out.kind = "raise" /\ out.exc = "CensusException"
       /\ InSeq(TransientMsg, out.msg)
    THEN "again"
    ELSE IF out.kind = "raise" THEN "raise" ELSE "return"

\* The geo dict ACS5Client.state_zipcode builds.
state_zipcode_geo(year, state_fips, zcta) ==
    LET for == "zip code tabulation area:" \o zcta
    IN  IF year >= 2022 THEN [k \in {"for"} |-> for]
        ELSE IF year < 2020
        THEN [k \in {"for", "in"} |->
                 IF k = "for" THEN for ELSE "state:" \o state_fips]
        ELSE [k \in {"for", "regionin"} |->
                 IF k = "for" THEN for ELSE "state:" \o state_fips]

\* The geo dict of a direct get or query call in the model.
CountyGeo ==
    [k \in {"for", "in"} |-> IF k = "for" THEN "county:031" ELSE "state:17"]

UsGeo == [k \in {"for"} |-> "us:1"]

\* sort_by_geoid as Client.get computes it: year is the year argument.
SortByGeoId(fields, year) ==
    Len(fields) > ChunkSize /\ (year = None \/ year > LastLegacyYear)

\* [merge(result) for result in zip(*all_results)].
MergedResults(all_results) ==
    IF Len(all_results) = 0 THEN << >>
    ELSE LET n == CHOOSE m \in 0..(NumGeos + 1) :
                    /\ \A k \in DOMAIN all_results : m <= Len(all_results[k])
                    /\ \E k \in DOMAIN all_results : m = Len(all_results[k])
         IN  [i \in 1..n |->
                 merge([k \in DOMAIN all_results |-> all_results[k][i]])]

\* ACSClient.get(*args, **kwargs): the instance after _switch_endpoints and
\* the start of Client.get(fields, geo, year).
AcsGet(self, fields, geo, mode, y) ==
    LET year == ArgYear(mode, y)
    IN  [self |-> switch_endpoints(self, KwYear(self, mode, y)),
         switch |-> KwYear(self, mode, y),
         geo  |-> geo,
         year |-> year,
         sort |-> SortByGeoId(fields, year),
         todo |-> chunks(fields, ChunkSize),
         pc   |-> IF Len(fields) = 0 THEN "idle" ELSE "query",
         out  |-> IF Len(fields) = 0 THEN Return(MergedResults(<< >>)) ELSE NoOutcome]

\* A call that ends at once with outcome out.
Ended(self, out) ==
    [self |-> self, switch |-> None, geo |-> << >>, year |-> None,
     sort |-> FALSE, todo |-> << >>, pc |-> "idle", out |-> out]

\* The start of a public method m of client self, called with field list
\* fields and the year y supplied as mode; sortArg is query's sort_by_geoid.
\* Gives the instance after, the year _switch_endpoints was called with (None:
\* it was not called), and where the call stands: ended (pc = "idle") or
\* about to send its first request.
CallEffect(self, m, fields, mode, y, sortArg) ==
    LET guard == supported_years(self, m, mode, y)
    IN  IF guard.kind = "raise" THEN Ended(self, guard)
        ELSE CASE m = "get" -> AcsGet(self, fields, CountyGeo, mode, y)
               [] m = "us" -> AcsGet(self, fields, UsGeo, mode, y)
               [] m = "state_zipcode" ->
                    AcsGet(self, fields,
                           state_zipcode_geo(KwYear(self, mode, y), "17", "60614"),
                           mode, y)
               [] m = "tables" ->
                    [self |-> switch_endpoints(self, KwYear(self, mode, y)),
                     switch |-> KwYear(self, mode, y),
                     geo |-> << >>, year |-> ArgYear(mode, y), sort |-> FALSE,
                     todo |-> << >>, pc |-> "fetch", out |-> NoOutcome]
               [] m = "fields" ->
                    [self |-> self, switch |-> None,
                     geo |-> << >>, year |-> ArgYear(mode, y), sort |-> FALSE,
                     todo |-> << >>, pc |-> "fetch", out |-> NoOutcome]
               [] m = "query" ->
                    [self |-> self, switch |-> None,
                     geo |-> CountyGeo, year |-> ArgYear(mode, y), sort |-> sortArg,
                     todo |-> <<fields>>, pc |-> "query", out |-> NoOutcome]

(***************************************************************************)
(* State.                                                                  *)
(***************************************************************************)
VARIABLES
    inst,    \* client id -> the instance's fields
    cache,   \* the lru_cache of _field_type, least recently used first
    thr,     \* thread -> the call it is in (or made last)
    look,    \* the last direct _field_type call and what it returned
    since,   \* key resolved directly -> its tag then, the other keys since
    switched \* client id -> the year of its last _switch_endpoints (or None)

vars == <<inst, cache, thr, look, since, switched>>

Clients == {"a", "b"}

Threads == {1, 2}

\* A thread that has made no call yet.
IdleThread ==
    [pc |-> "idle", c |-> "a", method |-> "", mode |-> "", y |-> None,
     fields |-> << >>, kind |-> "list", geo |-> << >>, year |-> None,
     sort |-> FALSE, todo |-> << >>, tries |-> 0, results |-> << >>,
     reqs |-> << >>, out |-> NoOutcome,
     before |-> ClientTemplates]

NoLook == [key |-> <<"", "", None>>, tag |-> "", requested |-> FALSE,
           prior |-> "", others |-> 0]

\* The state after the clients are constructed with year argument y (None:
\* the class default) and retry budget r.
InitWith(Ys, Rs) ==
    /\ \E y \in Ys, r \in Rs : inst = [c \in Clients |-> NewClient("KEY", y, r)]
    /\ cache = << >>
    /\ thr = [t \in Threads |-> IdleThread]
    /\ look = NoLook
    /\ since = << >>
    /\ switched = [c \in Clients |-> None]

\* A caller's list of n fields with GEO_ID at position g (0: not in it).
MkFields(n, g) == [i \in 1..n |-> IF i = g THEN GEO_ID ELSE Fld(i)]

\* The keys the lookups of one query attempt resolved, in order.
KeysOf(c, headers, year) == [i \in DOMAIN headers |-> <<c, headers[i], year>>]

\* since after the keys ks were resolved in this order to the tags.
SinceAfter(ks, tags) ==
    [w \in DOMAIN since |->
        IF InSeq(w, ks)
        THEN [tag    |-> tags[LastIndex(ks, w)],
              others |-> {ks[i] : i \in {j \in DOMAIN ks : j > LastIndex(ks, w)}}]
        ELSE [tag    |-> since[w].tag,
              others |-> since[w].others \cup Range(ks)]]

(***************************************************************************)
(* Actions.                                                                *)
(***************************************************************************)
\* Thread t calls method m of client c: the year guard, the endpoint
\* switch, and the set-up of the requests to come.
Call(t, c, m, fields, kind, mode, y, sortArg) ==
    /\ thr[t].pc = "idle"
    /\ LET e == CallEffect(inst[c], m, fields, mode, y, sortArg)
       IN  /\ inst' = [inst EXCEPT ![c] = e.self]
           /\ thr' = [thr EXCEPT ![t] =
                 [pc |-> e.pc, c |-> c, method |-> m, mode |-> mode, y |-> y,
                  fields |-> fields, kind |-> kind, geo |-> e.geo,
                  year |-> e.year, sort |-> e.sort, todo |-> e.todo,
                  tries |-> 0, results |-> << >>, reqs |-> << >>,
                  out |-> e.out,
                  before |-> TemplatesOf(inst[c])]]
           /\ switched' = IF e.switch = None THEN switched
                           ELSE [switched EXCEPT ![c] = e.switch]
    /\ UNCHANGED <<cache, look, since>>

\* Thread t makes one attempt of the query of its current chunk: the request,
\* the response the server chooses (shape, meta), the retry wrapper's
\* decision, and after the last chunk the merge of Client.get.
Attempt(t, shape, meta) ==
    /\ thr[t].pc = "query"
    /\ \E r \in {query(thr[t].c, inst[thr[t].c], cache, Head(thr[t].todo),
                       thr[t].kind, thr[t].geo, thr[t].year, thr[t].sort,
                       shape, meta)} :
       LET s    == thr[t]
           self == inst[s.c]
           what == retry_on_transient_error(self.retries, s.tries, r.out)
           req  == [kind |-> "data", url |-> r.req.url, params |-> r.req.params,
                    sent |-> r.req.sent, arg |-> Head(s.todo),
                    k |-> Len(s.results) + 1, try |-> s.tries + 1,
                    resp |-> r.resp, tags |-> r.tags, looked |-> r.lookups,
                    after |-> switched[s.c], res |-> r.out]
           all  == Append(s.results, r.out.value)
           last == Len(s.todo) = 1
           year == IF s.year = None THEN self.default_year ELSE s.year
       IN  /\ cache' = r.cache
           /\ since' = SinceAfter(KeysOf(s.c, r.headers, year), r.tags)
           /\ thr' = [thr EXCEPT ![t] =
                 [s EXCEPT
                    !.reqs = Append(s.reqs, req),
                    !.todo = CASE what = "again" -> <<r.obj>> \o Tail(s.todo)
                               [] what = "raise" -> s.todo
                               [] what = "return" -> Tail(s.todo),
                    !.tries = IF what = "again" THEN s.tries + 1 ELSE 0,
                    !.results = IF what = "return" THEN all ELSE s.results,
                    !.pc = IF what = "again" \/ (what = "return" /\ ~last)
                           THEN "query" ELSE "idle",
                    !.out = CASE what = "raise" -> r.out
                              [] what = "return" /\ last /\ s.method = "query" -> r.out
                              [] what = "return" /\ last -> Return(MergedResults(all))
                              [] OTHER -> NoOutcome]]
    /\ UNCHANGED <<inst, look, switched>>

\* Thread t sends the one request of tables() or fields() and returns.
Fetch(t) ==
    /\ thr[t].pc = "fetch"
    /\ LET s    == thr[t]
           self == inst[s.c]
           year == IF s.year = None THEN self.default_year ELSE s.year
           tmpl == IF s.method = "tables" THEN self.groups_url
                   ELSE self.definitions_url
           req  == [kind |-> s.method, url |-> Fmt(tmpl, <<YearStr(year), dataset>>),
                    params |-> << >>, sent |-> << >>, arg |-> << >>,
                    k |-> 0, try |-> 1,
                    resp |-> NoResp, tags |-> << >>, looked |-> << >>,
                    after |-> switched[s.c], res |-> Return(<< >>)]
       IN  thr' = [thr EXCEPT ![t] =
                 [s EXCEPT !.reqs = Append(s.reqs, req), !.pc = "idle",
                           !.out = Return(<< >>)]]
    /\ UNCHANGED <<inst, cache, look, since, switched>>

\* A direct call client._field_type(field, year) on client c, answered as
\* meta says when it does send a request.  look records what it returned,
\* whether it sent a request, the tag the key had when it was last resolved
\* directly and how many other keys were resolved since.
Resolve(c, field, year, meta) ==
    /\ \A t \in Threads : thr[t].pc = "idle"
    /\ \E r \in {lru_cache(cache, c, inst[c], field, year, MetaResp(meta, field))} :
          LET key == <<c, field, year>>
              old == key \in DOMAIN since
          IN  /\ cache' = r.cache
              /\ look' = [key |-> key, tag |-> r.tag, requested |-> r.urls # << >>,
                          prior |-> IF old THEN since[key].tag ELSE "",
                          others |-> IF old THEN Cardinality(since[key].others \ {key})
                                     ELSE 0]
              /\ since' = [w \in DOMAIN since \cup {key} |->
                             IF w = key THEN [tag |-> r.tag, others |-> {}]
                             ELSE [tag |-> since[w].tag,
                                   others |-> since[w].others \cup {key}]]
    /\ UNCHANGED <<inst, thr, switched>>

(***************************************************************************)
(* Spec: calls made one after the other on one ACS5 client, for every way  *)
(* of supplying the year.  The server answers data requests with 204 or    *)
(* with an error, so that the type cache stays as it is and the calls can  *)
(* go on without bound.                                                    *)
(***************************************************************************)
\* Years a caller asks for: around each boundary of the code.
CallYears == {2008, 2009, 2010, 2019, 2020, 2021, 2022}

\* Years a client is constructed with.
InitYears == {None, 2008, 2009}

\* The (mode, year) pairs of a call of method m.
YearArgs(m, Ys) ==
    {ya \in {<<"omitted", None>>} \cup ({"keyword", "positional"} \X Ys) :
        ya[1] \in ModesOf(m)}

Init == InitWith(InitYears, {DefaultRetries})

NoRowShapes ==
    {sh \in RespShapes({"empty", "other", "transient"}, {204, 400}, {"1234"}) :
        (sh.status = 204) = (sh.body = "empty")}

Next ==
    \/ \E m \in {"get", "us", "state_zipcode", "tables", "fields"} :
          \E ya \in YearArgs(m, CallYears) :
              Call(1, "a", m, MkFields(1, 0), "tuple", ya[1], ya[2], FALSE)
    \/ \E sh \in NoRowShapes : Attempt(1, sh, "up")
    \/ Fetch(1)

Spec == Init /\ [][Next]_vars

(***************************************************************************)
(* SpecQuery: one direct Client.query call on a client with any retry      *)
(* budget, against every response the server can give.                     *)
(***************************************************************************)
AllShapes == RespShapes(BodyKinds, Statuses, {"1234", "N", NULL})

QueryFieldLists == {MkFields(1, 0), MkFields(2, 0), MkFields(2, 2)}

\* The variables endpoint is asked only after a 200 with a JSON body.
MetaFor(sh) ==
    IF sh.status = 200 /\ sh.body = "json" THEN {"up", "down"} ELSE {"up"}

InitQuery == InitWith({None}, 0..MaxRetries)

NextQuery ==
    \/ /\ thr[1].method = ""
       /\ \E fs \in QueryFieldLists, kind \in {"list", "tuple"},
             ya \in {<<"omitted", None>>, <<"keyword", 2009>>}, sortArg \in BOOLEAN :
             Call(1, "a", "query", fs, kind, ya[1], ya[2], sortArg)
    \/ \E sh \in AllShapes : \E meta \in MetaFor(sh) : Attempt(1, sh, meta)

SpecQuery == InitQuery /\ [][NextQuery]_vars

(***************************************************************************)
(* SpecChunk: one get call with a field list of any length up to           *)
(* MaxFields, with or without GEO_ID in it, on a client whose default year *)
(* is before or after the GEO_ID boundary.                                 *)
(***************************************************************************)
\* The rows in the registered order, and in the opposite order.
ChunkOrders == {FirstOrder, [i \in 1..NumGeos |-> NumGeos + 1 - i]}

ChunkShapes ==
    {sh \in RespShapes({"json", "other"}, {200, 400}, {"1234"}) :
        /\ sh.order \in ChunkOrders
        /\ (sh.status = 200) = (sh.body = "json")}

InitChunk == InitWith({None, 2009}, {DefaultRetries})

NextChunk ==
    \/ /\ thr[1].method = ""
       /\ \E n \in 0..MaxFields, g \in {0, 1},
             ya \in {<<"omitted", None>>, <<"keyword", 2009>>, <<"keyword", 2010>>} :
             /\ g <= n
             /\ Call(1, "a", "get", MkFields(n, g), "list", ya[1], ya[2], FALSE)
    \/ \E sh \in ChunkShapes : Attempt(1, sh, "up")

SpecChunk == InitChunk /\ [][NextChunk]_vars

(***************************************************************************)
(* SpecCache: get calls of two clients for one year after the other fill   *)
(* the type cache past its capacity; between the calls one key is resolved *)
(* directly, any number of times.                                          *)
(***************************************************************************)
\* The keys one filling call resolves: its fields, GEO_ID and the two
\* geography columns.  The calls have two chunks, and a length with which
\* some number of them resolves exactly maxsize - 1 keys.
KeysPerFill ==
    CHOOSE k \in (ChunkSize + 4)..(2 * ChunkSize + 3) : (maxsize - 1) % k = 0

FillFields == MkFields(KeysPerFill - 3, 0)

\* As many filling calls as fill the cache, and CacheSlack more.
FillCalls == (maxsize + KeysPerFill - 1) \div KeysPerFill + CacheSlack

\* The i-th filling call: the clients take turns, each year in turn.
FillClient(i) == IF i % 2 = 1 THEN "a" ELSE "b"

FillYear(i) == LastLegacyYear + (i + 1) \div 2

\* The number of filling calls made, read off the last one.
Filled(s) ==
    IF s.method = "" THEN 0
    ELSE 2 * (s.y - LastLegacyYear) - (IF s.c = "a" THEN 1 ELSE 0)

FillShape == [status |-> 200, body |-> "json", order |-> FirstOrder, val |-> "1234"]

InitCache == InitWith({None}, {DefaultRetries})

NextCache ==
    \/ /\ Filled(thr[1]) < FillCalls
       /\ Call(1, FillClient(Filled(thr[1]) + 1), "get", FillFields, "list",
               "keyword", FillYear(Filled(thr[1]) + 1), FALSE)
    \/ Attempt(1, FillShape, "up")
    \/ \E meta \in {"up", "down"} : Resolve("a", Fld(1), LastLegacyYear, meta)

SpecCache == InitCache /\ [][NextCache]_vars

(***************************************************************************)
(* SpecRace: two threads share one ACS client; each makes one get call,    *)
(* one for the last legacy year and one for the year after, and their      *)
(* calls and requests interleave in every order.                           *)
(***************************************************************************)
RaceYear(t) == IF t = 1 THEN LastLegacyYear ELSE LastLegacyYear + 1

RaceShapes == NoRowShapes \cup {FillShape}

InitRace == InitWith({None}, {DefaultRetries})

NextRace ==
    \/ \E t \in Threads :
          /\ thr[t].method = ""
          /\ Call(t, "a", "get", MkFields(1, 0), "tuple", "keyword", RaceYear(t), FALSE)
    \/ \E t \in Threads : \E sh \in RaceShapes : Attempt(t, sh, "up")

SpecRace == InitRace /\ [][NextRace]_vars

(***************************************************************************)
(* Notions the properties share.                                           *)
(***************************************************************************)
\* The year a call asks for: the year the caller supplied, in whichever
\* way, or the client's default year.
ReqYear(s) == IF s.mode = "omitted" THEN inst[s.c].default_year ELSE s.y

\* The data requests (query attempts) a call has made so far.
DataReqs(s) == {i \in DOMAIN s.reqs : s.reqs[i].kind = "data"}

\* The outcome is the transient query error.
Transient(o) ==
    o.kind = "raise" /\ o.exc = "CensusException" /\ InSeq(TransientMsg, o.msg)

\* float() cannot parse some non-null cell of a column typed float.
FloatFails(q) ==
    \E k \in 2..Len(q.resp.json) : \E j \in DOMAIN q.resp.json[1] :
        q.tags[j] = "float" /\ q.resp.json[k][j] \notin {NULL, "1234", "12.5"}

(***************************************************************************)
(* C1: the outcome of one query attempt.                                   *)
(***************************************************************************)
\* C1 as stated: 204 gives an empty result, 200 with a JSON body one row per
\* data row, 200 with an undecodable body and the invalid-key marker
\* APIKeyError, and everything else, an undecodable 200 without the marker
\* included, CensusException carrying the response text.
C1_AsClaimed ==
    \A t \in Threads : \A i \in DataReqs(thr[t]) :
        LET q == thr[t].reqs[i]
            resp == q.resp
            o == q.res
        IN  CASE resp.status = 204 -> o.kind = "return" /\ o.value = << >>
              [] resp.status = 200 /\ resp.decodable ->
                    o.kind = "return" /\ Len(o.value) = Len(resp.json) - 1
              [] resp.status = 200 /\ ~resp.decodable
                    /\ InSeq(InvalidKeyMarker, resp.text) ->
                    o.kind = "raise" /\ o.exc = "APIKeyError"
              [] OTHER ->
                    o.kind = "raise" /\ o.exc = "CensusException" /\ o.msg = resp.text

\* C1 amended: as C1, except that an undecodable 200 body without the marker
\* raises the JSON decoder's ValueError (not CensusException), and that a 200
\* JSON body raises float's ValueError when a non-null cell of a float-typed
\* column does not parse; otherwise it gives one row per data row.
C1_AttemptOutcome ==
    \A t \in Threads : \A i \in DataReqs(thr[t]) :
        LET q == thr[t].reqs[i]
            resp == q.resp
            o == q.res
        IN  CASE resp.status = 204 -> o.kind = "return" /\ o.value = << >>
              [] resp.status = 200 /\ resp.decodable ->
                    IF FloatFails(q)
                    THEN o.kind = "raise" /\ o.exc = "ValueError"
                    ELSE o.kind = "return" /\ Len(o.value) = Len(resp.json) - 1
              [] resp.status = 200 /\ ~resp.decodable
                    /\ InSeq(InvalidKeyMarker, resp.text) ->
                    o.kind = "raise" /\ o.exc = "APIKeyError"
              [] resp.status = 200 /\ ~resp.decodable ->
                    o.kind = "raise" /\ o.exc = "ValueError"
              [] OTHER ->
                    o.kind = "raise" /\ o.exc = "CensusException" /\ o.msg = resp.text

\* An attempt got a 200 whose body is neither JSON nor the invalid-key page,
\* and the call ended with the decoder's ValueError.
C1_Witness ==
    \E i \in DataReqs(thr[1]) :
        LET q == thr[1].reqs[i]
        IN  /\ q.resp.status = 200 /\ ~q.resp.decodable
            /\ ~InSeq(InvalidKeyMarker, q.resp.text)
            /\ q.res.exc = "ValueError"
            /\ thr[1].pc = "idle" /\ thr[1].out = q.res

(***************************************************************************)
(* C2: the retry budget of one query call.                                 *)
(***************************************************************************)
\* C2: a query call on a client with retries = R >= 1 makes at most R
\* attempts; a transient failure before the R-th attempt is followed by a
\* further attempt; the R-th transient failure, the first success, and any
\* other failure end the call with that very outcome.
C2_RetryBudget ==
    \A t \in Threads :
        LET s == thr[t]
            R == inst[s.c].retries
            n == Len(s.reqs)
        IN  s.method = "query" /\ R >= 1 =>
              /\ n <= R
              /\ \A i \in 1..n :
                    LET o == s.reqs[i].res
                    IN  /\ s.reqs[i].try = i
                        /\ Transient(o) /\ i < R => (i < n \/ s.pc = "query")
                        /\ Transient(o) /\ i = R =>
                              (i = n /\ s.pc = "idle" /\ s.out = o)
                        /\ ~Transient(o) =>
                              (i = n /\ s.pc = "idle" /\ s.out = o)

\* With the default budget of 3, three attempts all failed with the transient
\* error and the third one reached the caller.
C2_Witness ==
    LET s == thr[1]
    IN  /\ s.method = "query" /\ inst[s.c].retries = DefaultRetries
        /\ Len(s.reqs) = DefaultRetries
        /\ \A i \in DOMAIN s.reqs : Transient(s.reqs[i].res)
        /\ s.pc = "idle" /\ Transient(s.out)

(***************************************************************************)
(* C3: the year guard of the year-gated methods.                           *)
(***************************************************************************)
\* C3 as stated: a call of a year-gated method whose requested year is not in
\* the method's supported set raises UnsupportedYearException naming the year
\* and the set, before any request and without touching the templates; a
\* call whose requested year is in the set passes the guard.
C3_AsClaimed ==
    \A t \in Threads :
        LET s == thr[t]
            ry == ReqYear(s)
        IN  s.method \in Gated =>
              IF ~InSeq(ry, GateYears(s.method))
              THEN /\ s.out.kind = "raise"
                   /\ s.out.exc = "UnsupportedYearException"
                   /\ s.out.msg[2] = YearStr(ry)
                   /\ s.out.msg[4] = TupleStr(GateYears(s.method))
                   /\ s.reqs = << >>
                   /\ TemplatesOf(inst[s.c]) = s.before
              ELSE s.out.exc # "UnsupportedYearException"

(***************************************************************************)
(* C4: the template a data or table-listing call builds its URL from.      *)
(***************************************************************************)
\* The URL of the legacy template up to 2009 and of the acs template from
\* 2010 on, for the year ry.
RoutedUrl(ry, tail) ==
    Host \o YearStr(ry) \o (IF ry >= 2010 THEN "/acs/" ELSE "/") \o dataset \o tail

\* C4 as stated: every request of a get or tables call goes to the URL of the
\* template set of the call's own requested year, with that year in it.
C4_AsClaimed ==
    \A t \in Threads :
        LET s == thr[t]
        IN  \A i \in DOMAIN s.reqs :
              /\ s.method \in {"get", "us", "state_zipcode"} =>
                    s.reqs[i].url = RoutedUrl(ReqYear(s), "")
              /\ s.method = "tables" =>
                    s.reqs[i].url = RoutedUrl(ReqYear(s), "/groups.json")

(***************************************************************************)
(* C6: the containment parameter of ACS5 state_zipcode.                    *)
(***************************************************************************)
\* C6 as stated: the data request of state_zipcode carries 'state:<fips>'
\* under 'in' before 2020, under 'regionin' in 2020 and 2021, and no
\* containment from 2022 on; 'for' is the ZCTA in all three bands.
C6_AsClaimed ==
    \A t \in Threads :
        LET s == thr[t]
            ry == ReqYear(s)
        IN  s.method = "state_zipcode" =>
              \A i \in DataReqs(s) :
                LET ps == s.reqs[i].params
                    keys == (DOMAIN ps) \cap {"in", "regionin"}
                IN  /\ ps["for"] = "zip code tabulation area:60614"
                    /\ ry < 2020 => (keys = {"in"} /\ ps["in"] = "state:17")
                    /\ ry \in {2020, 2021} =>
                          (keys = {"regionin"} /\ ps["regionin"] = "state:17")
                    /\ ry >= 2022 => keys = {}

(***************************************************************************)
(* C5, C7, C9: chunking, the appended GEO_ID and the merged rows.          *)
(***************************************************************************)
\* A get call that returned, none of its queries having failed.
Fetched(s) ==
    /\ s.method = "get" /\ s.pc = "idle" /\ s.out.kind = "return"
    /\ \A i \in DOMAIN s.reqs : s.reqs[i].res.kind = "return"

\* The i-th run of at most ChunkSize consecutive fields of a list.
Run(fields, i) ==
    SubSeq(fields, ChunkSize * (i - 1) + 1, Min(ChunkSize * i, Len(fields)))

\* ceil(n / ChunkSize).
CeilChunks(n) == (n + ChunkSize - 1) \div ChunkSize

\* The queries of a fetch are its runs in order: query i was called with
\* run i and sent it first, and there are count of them.
RunsInOrder(s, count) ==
    /\ Len(s.reqs) = count
    /\ \A i \in DOMAIN s.reqs :
          /\ s.reqs[i].kind = "data"
          /\ s.reqs[i].arg = Run(s.fields, i)
          /\ Len(s.reqs[i].arg) <= ChunkSize
          /\ SubSeq(s.reqs[i].sent, 1, Len(s.reqs[i].arg)) = s.reqs[i].arg

\* The request carries a GEO_ID the query added after the fields it was
\* called with.
AutoAppended(q) == q.sent = q.arg \o <<GEO_ID>>

\* C5 as stated: a fetch none of whose queries fails issues exactly one
\* query when n <= 49, n = 0 included, and ceil(n/49) when n > 49, in order,
\* each with a consecutive run of at most 49 of the caller's fields.
C5_AsClaimed ==
    \A t \in Threads :
        Fetched(thr[t]) =>
            LET n == Len(thr[t].fields)
            IN  RunsInOrder(thr[t], IF n <= ChunkSize THEN 1 ELSE CeilChunks(n))

\* C5, amended: a fetch none of whose queries fails issues exactly
\* ceil(n/49) queries, which is none for an empty field list and one for
\* 1 <= n <= 49; they are issued in order, query i is called with the i-th
\* consecutive run of at most 49 of the caller's fields in the caller's
\* order, and the runs concatenated are the caller's list.
C5_Chunking ==
    \A t \in Threads :
        Fetched(thr[t]) =>
            LET s == thr[t]
                n == Len(s.fields)
            IN  /\ RunsInOrder(s, CeilChunks(n))
                /\ \A j \in 1..n :
                      s.reqs[CeilChunks(j)].arg[j - ChunkSize * (CeilChunks(j) - 1)]
                          = s.fields[j]
                /\ n = 0 => s.out.value = << >>

\* A fetch of more than two full runs returned, after three queries.
C5_Witness ==
    \E t \in Threads :
        /\ Fetched(thr[t])
        /\ Len(thr[t].fields) > 2 * ChunkSize
        /\ Len(thr[t].reqs) = 3

\* The keys of a merged row, as a set.
Keys(row) == DOMAIN row

\* C7 as stated: when a chunked fetch appended GEO_ID on its own and the
\* caller's list has no GEO_ID, the keys of every merged row are the caller's
\* fields plus the geography columns and nothing else; when the caller asked
\* for GEO_ID, every merged row has it.
C7_AsClaimed ==
    \A t \in Threads :
        Fetched(thr[t]) =>
            LET s == thr[t]
            IN  \A k \in DOMAIN s.out.value :
                    IF InSeq(GEO_ID, s.fields)
                    THEN GEO_ID \in Keys(s.out.value[k])
                    ELSE (\E i \in DOMAIN s.reqs : AutoAppended(s.reqs[i])) =>
                            /\ GEO_ID \notin Keys(s.out.value[k])
                            /\ Keys(s.out.value[k]) =
                                  Range(s.fields) \cup Range(GeoCols(s.reqs[1].params))

\* The geographies of a query's rows in the order of the response, and in
\* the order of its result (the 'for' column is the last one).
RespGeos(q) ==
    [k \in 1..(Len(q.resp.json) - 1) |-> q.resp.json[k + 1][Len(q.resp.json[1])]]

ResultGeos(q) ==
    [k \in DOMAIN q.res.value |-> q.res.value[k][ForLevel(q.params["for"])]]

\* The geography a 'for' cell names.
CellGeo(v) == CHOOSE g \in 1..(NumGeos + 1) : Cell("geo", g, NULL) = v

\* The rows are in the order of their GEO_ID values.
Ascending(geos) ==
    \A i, j \in DOMAIN geos : i < j => CellGeo(geos[i]) <= CellGeo(geos[j])

\* C9 as stated: a fetch appends GEO_ID to a sub-request and sorts its rows
\* exactly when the caller's list has more than 49 fields, has no GEO_ID in
\* it, and the year the requests are made for is later than 2009; otherwise
\* nothing is appended and the rows keep the order of the response.
C9_AsClaimed ==
    \A t \in Threads :
        thr[t].method = "get" =>
            LET s == thr[t]
                should == /\ Len(s.fields) > ChunkSize
                          /\ ~InSeq(GEO_ID, s.fields)
                          /\ ReqYear(s) > LastLegacyYear
            IN  \A i \in DataReqs(s) :
                    LET q == s.reqs[i]
                    IN  /\ AutoAppended(q) = should
                        /\ ~should => q.sent = q.arg
                        /\ q.res.kind = "return" =>
                              IF should THEN Ascending(ResultGeos(q))
                              ELSE ResultGeos(q) = RespGeos(q)

(***************************************************************************)
(* C8: the type cache.                                                     *)
(***************************************************************************)
\* C8 as stated: once a client has resolved a (field, year) pair, every
\* later resolution of it by that client returns the same tag without a
\* request, however many other pairs were resolved in between.
C8_AsClaimed ==
    look.prior # "" => (~look.requested /\ look.tag = look.prior)

\* C8, amended: once a client has resolved a (field, year) pair, a later
\* resolution of it by that client returns the same tag without a request
\* provided fewer than maxsize other (client, field, year) keys were
\* resolved in between, by this client or by any other.
C8_WithinCapacity ==
    (look.prior # "" /\ look.others < maxsize) =>
        (~look.requested /\ look.tag = look.prior)

\* A key was resolved again after maxsize - 1 other keys, of both clients,
\* and answered from the cache.
C8_Witness ==
    /\ look.prior # ""
    /\ look.others = maxsize - 1
    /\ ~look.requested
    /\ look.tag = look.prior

(***************************************************************************)
(* C10: concurrent calls on a shared client.                               *)
(***************************************************************************)
\* The template set _switch_endpoints selects for a year.
SelectedFor(year) ==
    IF year > LastLegacyYear THEN AcsTemplates ELSE ClientTemplates

\* The request q of a call for year y went to the data URL, and its lookups
\* to variable URLs, built from the template set selected for year.
BuiltFor(q, y, year) ==
    /\ q.url = Fmt(SelectedFor(year).endpoint_url, <<YearStr(y), dataset>>)
    /\ \A j \in DOMAIN q.looked :
          \E h \in Range(q.resp.json[1]) :
              q.looked[j] = Fmt(SelectedFor(year).definition_url,
                                <<YearStr(y), dataset, h>>)

\* C10: the templates are fields of the shared instance, so a get call's data
\* request and field-type lookups go to URLs built from the template set
\* selected by the latest _switch_endpoints on the instance, whichever call
\* made it; with two concurrent calls, one for a year up to 2009 and one for
\* a later year, that can be the set selected for the other call's year.
C10_LastSwitchRoutes ==
    \A t \in Threads :
        thr[t].method = "get" =>
            \A i \in DataReqs(thr[t]) :
                /\ thr[t].reqs[i].after # None
                /\ BuiltFor(thr[t].reqs[i], ReqYear(thr[t]), thr[t].reqs[i].after)

\* A call sent a data request and field-type lookups to URLs built from the
\* template set selected for the other call's year, which is not its own.
C10_Witness ==
    \E t, u \in Threads :
        /\ thr[t].method = "get" /\ thr[u].method = "get"
        /\ (thr[t].y > LastLegacyYear) # (thr[u].y > LastLegacyYear)
        /\ \E i \in DataReqs(thr[t]) :
              /\ thr[t].reqs[i].looked # << >>
              /\ BuiltFor(thr[t].reqs[i], thr[t].y, thr[u].y)
              /\ ~BuiltFor(thr[t].reqs[i], thr[t].y, thr[t].y)

(***************************************************************************)
(* C11: what the attempts of one query call send.                          *)
(***************************************************************************)
\* C11 as stated: every attempt the retry wrapper makes for one query call
\* sends the URL, the 'get' field list and the 'for'/'in' values of the
\* first attempt; a retry adds, drops or duplicates no field, the appended
\* GEO_ID included.
C11_AsClaimed ==
    \A t \in Threads :
        \A i, j \in DataReqs(thr[t]) :
            thr[t].reqs[i].k = thr[t].reqs[j].k =>
                /\ thr[t].reqs[i].url = thr[t].reqs[j].url
                /\ thr[t].reqs[i].sent = thr[t].reqs[j].sent
                /\ thr[t].reqs[i].params = thr[t].reqs[j].params

(***************************************************************************)
(* C12: the URL of fields().                                               *)
(***************************************************************************)
\* C12 as stated: the URL fields(year=y) requests depends only on the
\* dataset and y, whatever calls came before on the client, and it is built
\* from the template generation a data call for year y uses.
C12_AsClaimed ==
    \A t \in Threads :
        (thr[t].method = "fields" /\ thr[t].mode = "keyword") =>
            \A i \in DOMAIN thr[t].reqs :
                thr[t].reqs[i].url =
                    Fmt(SelectedFor(thr[t].y).definitions_url,
                        <<YearStr(thr[t].y), dataset>>)

====
